---- MODULE Spec2Model ----
(***************************************************************************)
(* express-standard-schema-validation: the middleware that createValidator *)
(* generates for one request container (query, body, params, headers,      *)
(* fields), run against one request (Spec); the generators and the schema  *)
(* check isStandardSchema (SpecSchema); the formatter buildErrorString     *)
(* (SpecFormat); the response middleware and its res.json wrapper          *)
(* (SpecResponse).                                                         *)
(*                                                                         *)
(* A JavaScript value is a tagged record; objects live in a per-request    *)
(* heap (a sequence of objects, an address is an index) so that reference  *)
(* identity, in-place mutation and the shallow copy { ...x } are visible.  *)
(* A string is the sequence of the pieces it was concatenated from.        *)
(***************************************************************************)
EXTENDS Integers, Sequences, FiniteSets, TLC

VARIABLES
  cfg,        \* validator-level configuration  (createValidator(cfg))
  opts,       \* per-call configuration         (validator[type](schema, opts))
  type,       \* container name the middleware was generated for
  pc,         \* per request: where the middleware run is
  req,        \* per request: the container property of the request object
  heap,       \* per request: the objects the request refers to
  result,     \* per request: what schema['~standard'].validate produced
  reason,     \* per request: what the promise chain was rejected with
  res,        \* per request: the response object
  log,        \* per request: the calls the middleware made, in order
  call,       \* per request: how validate was called and how it behaved
  nextThrows, \* per request: whether the continuation raises when called
  run,        \* per request: how many validators of the route have been entered,
              \* or how many times the wrapped res.json has been called
  gen,        \* the generator call validator[type](schema, opts) and what it gave
  fmt         \* a call of buildErrorString and what it returned

vars == <<cfg, opts, type, pc, req, heap, result, reason, res, log, call, nextThrows, run,
          gen, fmt>>

Reqs == {"r1", "r2"}

----------------------------------------------------------------------------
(* Bounds *)

\* longest issues list a schema reports
MaxIssues == 2

\* most validators of one container on a route
MaxRuns == 2

\* most calls of res.json a handler makes for one request
MaxEmits == 2

Messages == {"m1", "m2"}

RECURSIVE SeqsUpTo(_, _)
SeqsUpTo(S, n) ==
  IF n = 0 THEN {<<>>}
  ELSE LET shorter == SeqsUpTo(S, n - 1)
       IN  shorter \cup {Append(s, x) : s \in {t \in shorter : Len(t) = n - 1}, x \in S}

\* an issue is { message } (StandardSchemaV1.Issue)
Issue(m) == [message |-> m]
IssueLists == SeqsUpTo({Issue(m) : m \in Messages}, MaxIssues)

\* values a schema may throw or reject with
Errors == {"E1", "E2"}

----------------------------------------------------------------------------
(* JavaScript values *)

Undef      == [t |-> "undefined"]
Null       == [t |-> "null"]
JSBool(b)  == [t |-> "boolean", b |-> b]
JSNum(n)   == [t |-> "number", n |-> n]
JSStr(s)   == [t |-> "string", s |-> s]
Ref(a)     == [t |-> "ref", a |-> a]
JSArr(items) == [t |-> "array", items |-> items]
NoArg      == [t |-> "none"]
JSError(e) == [t |-> "error", name |-> e]

\* ToBoolean
Truthy(v) ==
  CASE v.t = "boolean" -> v.b
    [] v.t = "number"  -> v.n # 0
    [] v.t = "string"  -> v.s # <<>>
    [] v.t \in {"ref", "array", "error", "object", "function"} -> TRUE
    [] OTHER -> FALSE

\* a || b
Or(a, b) == IF Truthy(a) THEN a ELSE b

NoProps == [k \in {} |-> "x"]
Obj(props) == [kind |-> "object", props |-> props]
Arr(props) == [kind |-> "array", props |-> props]

\* { ...v }: a new plain object with the own enumerable properties of v;
\* undefined and null spread to {}
Spread(v, h) == IF v.t = "ref" THEN Obj(h[v.a].props) ELSE Obj(NoProps)

\* what a structural comparison (toEqual) sees of a value
Content(v, h) == IF v.t = "ref" THEN [t |-> "object", o |-> h[v.a]] ELSE v

----------------------------------------------------------------------------
(* Configuration *)

\* passError?: boolean; statusCode?: number, an HTTP status code when given
PassErrorValues == {Undef, JSBool(FALSE), JSBool(TRUE)}
CfgStatusCodes  == {Undef, JSNum(422)}
OptsStatusCodes == {Undef, JSNum(404)}

Cfgs  == [passError : PassErrorValues, statusCode : CfgStatusCodes]
Optss == [passError : PassErrorValues, statusCode : OptsStatusCodes]

\* constants.ts: container -> storageProperty
Containers == {"query", "body", "headers", "params", "fields"}
containers ==
  [c \in Containers |->
     [storageProperty |->
        CASE c = "query"   -> "originalQuery"
          [] c = "body"    -> "originalBody"
          [] c = "headers" -> "originalHeaders"
          [] c = "params"  -> "originalParams"
          [] c = "fields"  -> "originalFields"]]

----------------------------------------------------------------------------
(* utils.ts *)

\* typeof v
TypeOf(v) ==
  CASE v.t \in {"undefined", "boolean", "number", "string", "function"} -> v.t
    [] OTHER -> "object"

\* an object or a function, seen through its '~standard' member; a member that
\* is absent reads as undefined
Schema(t, std) == [t |-> t, std |-> std]
Callable == Schema("function", Undef)
PlainObject == Schema("object", Undef)

\* the value of schema['~standard'] when it has members of its own
Bundle(t, version, vendor, validate, types) ==
  [t |-> t, version |-> version, vendor |-> vendor, validate |-> validate,
   types |-> types]

Versions  == {Undef, JSNum(1), JSNum(2), JSStr(<<"1">>)}
Vendors   == {Undef, JSStr(<<>>), JSStr(<<"test">>), JSNum(1)}
Validates == {Undef, Callable, JSStr(<<"not a function">>)}
TypesMembers == {Undef, PlainObject}

StdMembers ==
       {Undef, Null, JSStr(<<"not an object">>)}
  \cup {Bundle(t, ve, vn, va, ty) : t \in {"object", "function"}, ve \in Versions,
          vn \in Vendors, va \in Validates, ty \in TypesMembers}

\* what a caller may hand to a generator or to isStandardSchema
Candidates ==
       {Undef, Null, JSStr(<<>>), JSStr(<<"not a schema">>), JSNum(0), JSNum(123),
        JSBool(FALSE), JSBool(TRUE)}
  \cup {Schema(t, std) : t \in {"object", "function"}, std \in StdMembers}

\* the check of an earlier release, which did not look at the vendor
isStandardSchemaNoVendor(schema) ==
  IF ~Truthy(schema) \/ (TypeOf(schema) # "object" /\ TypeOf(schema) # "function")
  THEN FALSE
  ELSE LET std == schema.std
       IN  /\ std # Null
           /\ std # Undef
           /\ TypeOf(std) = "object"
           /\ std.version = JSNum(1)
           /\ TypeOf(std.validate) = "function"

isStandardSchema(schema) ==
  IF ~Truthy(schema) \/ (TypeOf(schema) # "object" /\ TypeOf(schema) # "function")
  THEN FALSE
  ELSE LET std == schema.std
       IN  /\ std # Null
           /\ std # Undef
           /\ TypeOf(std) = "object"
           /\ std.version = JSNum(1)
           /\ TypeOf(std.vendor) = "string"
           /\ TypeOf(std.validate) = "function"

\* a schema as the tests build it: { '~standard': { version: 1, vendor: 'test', validate } }
MockSchema == Schema("object", Bundle("object", JSNum(1), JSStr(<<"test">>), Callable, Undef))

RECURSIVE Join(_, _)
\* Array.prototype.join
Join(strs, sep) ==
  IF Len(strs) = 0 THEN <<>>
  ELSE IF Len(strs) = 1 THEN strs[1]
  ELSE strs[1] \o sep \o Join(Tail(strs), sep)

\* the formatter of an earlier release ended the string with a period
buildErrorStringTrailingPeriod(issues, container, errorStringTemplate) ==
  LET dflt   == JSStr(<<"Error validating ">> \o container \o <<":">>)
      prefix == Or(errorStringTemplate, dflt).s
      issueString == Join([i \in 1..Len(issues) |-> <<issues[i].message>>], <<". ">>)
  IN  IF Len(issues) = 0 THEN prefix
      ELSE prefix \o <<" ">> \o issueString \o <<".">>

\* a formatter without the early return for an empty list
buildErrorStringNoGuard(issues, container, errorStringTemplate) ==
  LET dflt   == JSStr(<<"Error validating ">> \o container \o <<":">>)
      prefix == Or(errorStringTemplate, dflt).s
      issueString == Join([i \in 1..Len(issues) |-> <<issues[i].message>>], <<". ">>)
  IN  prefix \o <<" ">> \o issueString

buildErrorString(issues, container, errorStringTemplate) ==
  LET dflt   == JSStr(<<"Error validating ">> \o container \o <<":">>)
      prefix == Or(errorStringTemplate, dflt).s
      issueString == Join([i \in 1..Len(issues) |-> <<issues[i].message>>], <<". ">>)
  IN  IF Len(issues) = 0 THEN prefix
      ELSE prefix \o <<" ">> \o issueString

\* `request ${type}`
RequestLabel(ty) == <<"request ", ty>>

----------------------------------------------------------------------------
(* The request object *)

\* Own-property state of req[type] (Object.getOwnPropertyDescriptor(req, type)):
\*   "data"      own writable data property (body parsers, router params, plain objects)
\*   "inherited" no own property: the value, if any, comes from the prototype
\*   "ownGetter" own accessor installed by Object.defineProperty(req, type, { get })
\*               with the defaults configurable: false, enumerable: false
Descs == {"data", "inherited", "ownGetter"}

ObjA == Obj([k \in {"a"} |-> "1"])
ArrX == Arr([k \in {"0"} |-> "x"])
OutObj == Obj([k \in {"a"} |-> "out"])

\* what a container can hold when the middleware is reached: query, headers and
\* params are parsed into plain objects; a body may be an array; body and
\* fields are missing when no parser ran
ClientValues(ty) ==
  CASE ty = "body"   -> {"object", "array", "undefined"}
    [] ty = "fields" -> {"object", "undefined"}
    [] OTHER         -> {"object"}

\* query and headers are own properties or accessors of the prototype,
\* depending on the framework version; a missing container may be no property
ClientDescs(ty, kind) ==
  IF ty \in {"query", "headers"} \/ kind = "undefined"
  THEN {"data", "inherited"}
  ELSE {"data"}

ClientHeap(kind) ==
  CASE kind = "object" -> <<ObjA>>
    [] kind = "array"  -> <<ArrX>>
    [] OTHER           -> <<>>

ClientRef(kind) == IF kind = "undefined" THEN Undef ELSE Ref(1)

\* the request as it reaches the first middleware; reparse: the prototype's
\* accessor builds a new object at every read (the parsed query string)
NewRequest(ty, desc, kind) ==
  [q |-> [desc |-> desc, live |-> ClientRef(kind), orig |-> Undef,
          reparse |-> (desc = "inherited" /\ ty = "query")],
   h |-> ClientHeap(kind)]

\* (req as any)[type]
Read(q, h) ==
  IF q.desc = "inherited" /\ q.reparse /\ q.live.t = "ref"
  THEN [v |-> Ref(Len(h) + 1), h |-> Append(h, h[q.live.a])]
  ELSE [v |-> q.live, h |-> h]

NewResponse == [statusCode |-> JSNum(200), ended |-> FALSE, body |-> Undef]
IdleRequest == [desc |-> "data", live |-> Undef, orig |-> Undef, reparse |-> FALSE]

----------------------------------------------------------------------------
(* The schema: what validate may do with the value it is given *)

\* validate may change the object it is given in place (defaults, coercion)
MutateInPlace(v, h) ==
  [h EXCEPT ![v.a] = [@ EXCEPT !.props =
     [k \in DOMAIN @ \cup {"m"} |-> IF k = "m" THEN "mut" ELSE @[k]]]]

Mutations(v, h) == IF v.t = "ref" THEN {h, MutateInPlace(v, h)} ELSE {h}

\* StandardSchemaV1.Result
Outcome(issues, value) == [t |-> "outcome", issues |-> issues, value |-> value]

\* success values that are falsy: null and 0 ('' is falsy as 0 is)
FalsyValues == {Null, JSNum(0)}

\* { value } or { issues }: the value is the input itself, a new object, a new
\* empty object or a falsy value
Outcomes(v, h) ==
       {[r |-> Outcome(Undef, v), h |-> h]}
  \cup {[r |-> Outcome(Undef, f), h |-> h] : f \in FalsyValues}
  \cup {[r |-> Outcome(Undef, Ref(Len(h) + 1)), h |-> Append(h, OutObj)]}
  \cup {[r |-> Outcome(Undef, Ref(Len(h) + 1)), h |-> Append(h, Obj(NoProps))]}
  \cup {[r |-> Outcome(JSArr(l), Undef), h |-> h] : l \in IssueLists}

----------------------------------------------------------------------------
(* createValidator: the middleware (req, res, next) => void of a container *)

\* a middleware that looks at its own option only
PassErrorOptsOnly(o, c) == Truthy(o.passError)

\* opts.passError || cfg.passError
PassError(o, c) == Truthy(Or(o.passError, c.passError))

\* the two configuration levels consulted in the wrong order
StatusCodeCfgFirst(o, c) == Or(Or(c.statusCode, o.statusCode), JSNum(400))

\* opts.statusCode || cfg.statusCode || 400
StatusCode(o, c) == Or(Or(o.statusCode, c.statusCode), JSNum(400))

Event(op, arg) == [op |-> op, arg |-> arg]

\* an err object whose message names the container without the word request
ValidationErrorBareLabel(ty, o, c, issues, value) ==
  [t |-> "object",
   type |-> ty,
   error |-> [message |-> buildErrorString(issues.items, <<ty>>, Undef),
              details |-> issues],
   value |-> value,
   issues |-> issues,
   statusCode |-> StatusCode(o, c)]

\* the err object of the passError branch
ValidationError(ty, o, c, issues, value) ==
  [t |-> "object",
   type |-> ty,
   error |-> [message |-> buildErrorString(issues.items, RequestLabel(ty), Undef),
              details |-> issues],
   value |-> value,
   issues |-> issues,
   statusCode |-> StatusCode(o, c)]

----------------------------------------------------------------------------
(* createValidator: the generators validator[type](schema, opts) *)

\* query, body, params, headers, fields and response
Generators == Containers \cup {"response"}

\* throw new Error('Invalid schema: must implement Standard Schema V1 interface.')
InvalidSchema == JSError("Invalid schema: must implement Standard Schema V1 interface.")

\* the (req, res, next) => void a generator returns
Middleware(g) == [t |-> "middleware", type |-> g]

\* a generator call that has not run: the schema it is given, what a direct
\* isStandardSchema(schema) returned, what the generator gave back
NotGenerated(schema) == [schema |-> schema, isSchema |-> Undef, outcome |-> Undef]

\* no buildErrorString call
NotFormatted(issues, container, template) ==
  [issues |-> issues, container |-> container, template |-> template, out |-> Undef]

\* createValidator() and validator[type](schema) without configuration
NoConfig == [passError |-> Undef, statusCode |-> Undef]

NotCalled(content) == [pre |-> content, mode |-> "none", mutated |-> FALSE]

\* a route is set up with one validator instance; the first request reaches the
\* first validator of its container
Init ==
  /\ cfg \in Cfgs
  /\ opts \in Optss
  /\ type \in Containers
  /\ \E kind \in ClientValues(type) : \E desc \in ClientDescs(type, kind) :
       LET n == NewRequest(type, desc, kind)
       IN  /\ req = [r \in Reqs |-> IF r = "r1" THEN n.q ELSE IdleRequest]
           /\ heap = [r \in Reqs |-> IF r = "r1" THEN n.h ELSE <<>>]
           /\ call = [r \in Reqs |->
                        NotCalled(IF r = "r1" THEN Content(n.q.live, n.h) ELSE Undef)]
  /\ pc = [r \in Reqs |-> IF r = "r1" THEN "ready" ELSE "idle"]
  /\ result = [r \in Reqs |-> Undef]
  /\ reason = [r \in Reqs |-> Undef]
  /\ res = [r \in Reqs |-> NewResponse]
  /\ log = [r \in Reqs |-> <<>>]
  /\ nextThrows = [r \in Reqs |-> FALSE]
  /\ run = [r \in Reqs |-> IF r = "r1" THEN 1 ELSE 0]
  /\ gen = [NotGenerated(MockSchema) EXCEPT !.outcome = Middleware(type)]
  /\ fmt = NotFormatted(<<>>, <<>>, Undef)

Called(r, mode, h0, h1) == [call[r] EXCEPT !.mode = mode, !.mutated = (h0 # h1)]

\* a middleware that calls .then on what validate returned, without
\* Promise.resolve: an outcome is no promise, and the TypeError leaves the call
ValidateReturnsNotNormalised(r) ==
  /\ pc[r] = "ready"
  /\ LET rd == Read(req[r], heap[r])
     IN  \E h1 \in Mutations(rd.v, rd.h) : \E o \in Outcomes(rd.v, h1) :
           /\ heap' = [heap EXCEPT ![r] = o.h]
           /\ result' = [result EXCEPT ![r] = o.r]
           /\ call' = [call EXCEPT ![r] = Called(r, "sync", rd.h, h1)]
  /\ pc' = [pc EXCEPT ![r] = "escaped"]
  /\ UNCHANGED <<cfg, opts, type, req, reason, res, log, nextThrows, run, gen, fmt>>

\* schema['~standard'].validate((req as any)[type]) returns an outcome at once;
\* Promise.resolve wraps it in a fulfilled promise
ValidateReturns(r) ==
  /\ pc[r] = "ready"
  /\ LET rd == Read(req[r], heap[r])
     IN  \E h1 \in Mutations(rd.v, rd.h) : \E o \in Outcomes(rd.v, h1) :
           /\ heap' = [heap EXCEPT ![r] = o.h]
           /\ result' = [result EXCEPT ![r] = o.r]
           /\ call' = [call EXCEPT ![r] = Called(r, "sync", rd.h, h1)]
  /\ pc' = [pc EXCEPT ![r] = "fulfilled"]
  /\ UNCHANGED <<cfg, opts, type, req, reason, res, log, nextThrows, run, gen, fmt>>

\* validate throws before Promise.resolve is reached: no promise exists, no
\* .catch is attached, and the exception leaves the middleware call
ValidateThrows(r) ==
  /\ pc[r] = "ready"
  /\ LET rd == Read(req[r], heap[r])
     IN  \E h1 \in Mutations(rd.v, rd.h) :
           /\ heap' = [heap EXCEPT ![r] = h1]
           /\ call' = [call EXCEPT ![r] = Called(r, "sync", rd.h, h1)]
  /\ \E e \in Errors : result' = [result EXCEPT ![r] = JSError(e)]
  /\ pc' = [pc EXCEPT ![r] = "escaped"]
  /\ UNCHANGED <<cfg, opts, type, req, reason, res, log, nextThrows, run, gen, fmt>>

\* a middleware that goes on without waiting for the promise
ValidatePendingContinues(r) ==
  /\ pc[r] = "ready"
  /\ LET rd == Read(req[r], heap[r])
     IN  \E h1 \in Mutations(rd.v, rd.h) :
           /\ heap' = [heap EXCEPT ![r] = h1]
           /\ result' = [result EXCEPT ![r] = [t |-> "pending", input |-> rd.v]]
           /\ call' = [call EXCEPT ![r] = Called(r, "async", rd.h, h1)]
  /\ log' = [log EXCEPT ![r] = Append(@, Event("next", NoArg))]
  /\ pc' = [pc EXCEPT ![r] = "pending"]
  /\ UNCHANGED <<cfg, opts, type, req, reason, res, nextThrows, run, gen, fmt>>

\* validate returns a promise that is still pending when the middleware returns
ValidatePending(r) ==
  /\ pc[r] = "ready"
  /\ LET rd == Read(req[r], heap[r])
     IN  \E h1 \in Mutations(rd.v, rd.h) :
           /\ heap' = [heap EXCEPT ![r] = h1]
           /\ result' = [result EXCEPT ![r] = [t |-> "pending", input |-> rd.v]]
           /\ call' = [call EXCEPT ![r] = Called(r, "async", rd.h, h1)]
  /\ pc' = [pc EXCEPT ![r] = "pending"]
  /\ UNCHANGED <<cfg, opts, type, req, reason, res, log, nextThrows, run, gen, fmt>>

\* the schema's promise is fulfilled with an outcome
PromiseResolves(r) ==
  /\ pc[r] = "pending"
  /\ \E o \in Outcomes(result[r].input, heap[r]) :
       /\ heap' = [heap EXCEPT ![r] = o.h]
       /\ result' = [result EXCEPT ![r] = o.r]
  /\ pc' = [pc EXCEPT ![r] = "fulfilled"]
  /\ UNCHANGED <<cfg, opts, type, req, reason, res, log, call, nextThrows, run, gen, fmt>>

\* the schema's promise is rejected
PromiseRejects(r) ==
  /\ pc[r] = "pending"
  /\ \E e \in Errors :
       /\ result' = [result EXCEPT ![r] = JSError(e)]
       /\ reason' = [reason EXCEPT ![r] = JSError(e)]
  /\ pc' = [pc EXCEPT ![r] = "rejected"]
  /\ UNCHANGED <<cfg, opts, type, req, heap, res, log, call, nextThrows, run, gen, fmt>>

\* next(arg) as the last statement of a callback: the call is made, and an
\* exception it raises rejects the promise the callback belongs to
CallNext(r, st, arg) ==
  [st EXCEPT !.log = Append(@, Event("next", arg)),
             !.pc = IF nextThrows[r] THEN "rejected" ELSE "done",
             !.reason = IF nextThrows[r] THEN JSError("NextError") ELSE @]

\* the .then callback applied to the outcome the promise was fulfilled with
ThenCallback(r) ==
  LET q   == req[r]
      out == result[r]
      st  == [q |-> q, h |-> heap[r], res |-> res[r], log |-> log[r],
              pc |-> "done", reason |-> reason[r]]
  IN
  IF ~Truthy(out.issues)
  THEN \* Validation succeeded
    LET rd   == Read(q, heap[r])
        h1   == Append(rd.h, Spread(rd.v, rd.h))
        snap == Ref(Len(h1))
        st1  == [st EXCEPT !.q.orig = snap, !.h = h1,
                           !.log = Append(@, Event("setOriginal", snap))]
    IN  IF q.desc = "data"
        THEN \* descriptor && descriptor.writable
          CallNext(r, [st1 EXCEPT !.q.live = out.value,
                                  !.log = Append(@, Event("assign", out.value))],
                   NoArg)
        ELSE IF q.desc = "inherited"
        THEN \* no own property: defineProperty creates the accessor
          CallNext(r, [st1 EXCEPT !.q.live = out.value, !.q.desc = "ownGetter",
                                  !.log = Append(@, Event("defineProperty", out.value))],
                   NoArg)
        ELSE \* own accessor, not configurable: defineProperty throws a TypeError
          [st1 EXCEPT !.pc = "rejected", !.reason = JSError("TypeError")]
  ELSE IF PassError(opts, cfg)
  THEN \* Pass error to express error handler
    LET rd == Read(q, heap[r])
    IN  CallNext(r, [st EXCEPT !.h = rd.h],
                 ValidationError(type, opts, cfg, out.issues, rd.v))
  ELSE \* Return error as response
    LET code == StatusCode(opts, cfg)
        body == JSStr(buildErrorString(out.issues.items, RequestLabel(type), Undef))
    IN  [st EXCEPT !.res = [statusCode |-> code, ended |-> TRUE, body |-> body],
                   !.log = @ \o <<Event("status", code), Event("end", body)>>]

\* .then((result) => { ... }) runs once the promise is fulfilled
Then(r) ==
  /\ pc[r] = "fulfilled"
  /\ LET n == ThenCallback(r)
     IN  /\ req' = [req EXCEPT ![r] = n.q]
         /\ heap' = [heap EXCEPT ![r] = n.h]
         /\ res' = [res EXCEPT ![r] = n.res]
         /\ log' = [log EXCEPT ![r] = n.log]
         /\ pc' = [pc EXCEPT ![r] = n.pc]
         /\ reason' = [reason EXCEPT ![r] = n.reason]
  /\ UNCHANGED <<cfg, opts, type, result, call, nextThrows, run, gen, fmt>>

\* a catch handler whose next is the one of another request in flight
CatchOthersNext(r) ==
  /\ pc[r] = "rejected"
  /\ log' = [x \in Reqs |-> IF x # r /\ pc[x] # "idle"
                             THEN Append(log[x], Event("next", reason[r]))
                             ELSE log[x]]
  /\ pc' = [pc EXCEPT ![r] = "done"]
  /\ UNCHANGED <<cfg, opts, type, req, heap, result, reason, res, call, nextThrows, run, gen, fmt>>

\* a catch handler that continues the chain without the error
CatchDropsError(r) ==
  /\ pc[r] = "rejected"
  /\ log' = [log EXCEPT ![r] = Append(@, Event("next", NoArg))]
  /\ pc' = [pc EXCEPT ![r] = "done"]
  /\ UNCHANGED <<cfg, opts, type, req, heap, result, reason, res, call, nextThrows, run, gen, fmt>>

\* .catch((err) => { next(err) }) runs when the schema's promise was rejected or
\* the .then callback threw; an exception raised by this next(err) is unhandled
Catch(r) ==
  /\ pc[r] = "rejected"
  /\ log' = [log EXCEPT ![r] = Append(@, Event("next", reason[r]))]
  /\ pc' = [pc EXCEPT ![r] = "done"]
  /\ UNCHANGED <<cfg, opts, type, req, heap, result, reason, res, call, nextThrows, run, gen, fmt>>

\* a router that goes on to the next validator whatever the last one did
NextMiddlewareAfterAny(r) ==
  /\ pc[r] = "done"
  /\ run[r] < MaxRuns
  /\ opts' \in Optss
  /\ pc' = [pc EXCEPT ![r] = "ready"]
  /\ run' = [run EXCEPT ![r] = @ + 1]
  /\ log' = [log EXCEPT ![r] = <<>>]
  /\ result' = [result EXCEPT ![r] = Undef]
  /\ reason' = [reason EXCEPT ![r] = Undef]
  /\ call' = [call EXCEPT ![r] = NotCalled(Content(req[r].live, heap[r]))]
  /\ UNCHANGED <<cfg, type, req, heap, res, nextThrows, gen, fmt>>

\* next() hands the request to the next validator of the route, generated by the
\* same validator instance for the same container with options of its own
NextMiddleware(r) ==
  /\ pc[r] = "done"
  /\ run[r] < MaxRuns
  /\ log[r] # <<>> /\ log[r][Len(log[r])] = Event("next", NoArg)
  /\ opts' \in Optss
  /\ pc' = [pc EXCEPT ![r] = "ready"]
  /\ run' = [run EXCEPT ![r] = @ + 1]
  /\ log' = [log EXCEPT ![r] = <<>>]
  /\ result' = [result EXCEPT ![r] = Undef]
  /\ reason' = [reason EXCEPT ![r] = Undef]
  /\ call' = [call EXCEPT ![r] = NotCalled(Content(req[r].live, heap[r]))]
  /\ UNCHANGED <<cfg, type, req, heap, res, nextThrows, gen, fmt>>

Next ==
  \E r \in Reqs :
    \/ ValidateReturns(r)
    \/ ValidateThrows(r)
    \/ ValidatePending(r)
    \/ PromiseResolves(r)
    \/ PromiseRejects(r)
    \/ Then(r)
    \/ Catch(r)
    \/ NextMiddleware(r)

Spec == Init /\ [][Next]_vars

----------------------------------------------------------------------------
(* A route: validators of the container followed by the handler *)

\* next() of the last validator on the route hands the request to the handler
Handler(r) ==
  /\ pc[r] = "done"
  /\ log[r] # <<>> /\ log[r][Len(log[r])] = Event("next", NoArg)
  /\ pc' = [pc EXCEPT ![r] = "handler"]
  /\ UNCHANGED <<cfg, opts, type, req, heap, result, reason, res, log, call, nextThrows,
                 run, gen, fmt>>

NextRoute ==
  \E r \in Reqs :
    \/ ValidateReturns(r)
    \/ ValidateThrows(r)
    \/ ValidatePending(r)
    \/ PromiseResolves(r)
    \/ PromiseRejects(r)
    \/ Then(r)
    \/ Catch(r)
    \/ NextMiddleware(r)
    \/ Handler(r)

SpecRoute == Init /\ [][NextRoute]_vars

----------------------------------------------------------------------------
(* Two requests in flight through the same generated middleware *)

\* createValidator(cfg)[type](schema): one closure serves every request
ConcurrentCfgs == {c \in Cfgs : c.statusCode = Undef}
ConcurrentTypes == {"query", "body"}

\* both requests have reached the middleware, each with a container of its own
InitConcurrent ==
  /\ cfg \in ConcurrentCfgs
  /\ opts = NoConfig
  /\ type \in ConcurrentTypes
  /\ \E kind \in [Reqs -> ClientValues(type)] :
     \E desc \in [Reqs -> Descs] :
       /\ \A r \in Reqs : desc[r] \in ClientDescs(type, kind[r])
       /\ req = [r \in Reqs |-> NewRequest(type, desc[r], kind[r]).q]
       /\ heap = [r \in Reqs |-> NewRequest(type, desc[r], kind[r]).h]
       /\ call = [r \in Reqs |->
                    NotCalled(Content(ClientRef(kind[r]), ClientHeap(kind[r])))]
  /\ pc = [r \in Reqs |-> "ready"]
  /\ result = [r \in Reqs |-> Undef]
  /\ reason = [r \in Reqs |-> Undef]
  /\ res = [r \in Reqs |-> NewResponse]
  /\ log = [r \in Reqs |-> <<>>]
  /\ nextThrows = [r \in Reqs |-> FALSE]
  /\ run = [r \in Reqs |-> 1]
  /\ gen = [NotGenerated(MockSchema) EXCEPT !.outcome = Middleware(type)]
  /\ fmt = NotFormatted(<<>>, <<>>, Undef)

\* the steps of the two runs interleave in any order
NextConcurrent ==
  \E r \in Reqs :
    \/ ValidateReturns(r)
    \/ ValidateThrows(r)
    \/ ValidatePending(r)
    \/ PromiseResolves(r)
    \/ PromiseRejects(r)
    \/ Then(r)
    \/ Catch(r)

SpecConcurrent == InitConcurrent /\ [][NextConcurrent]_vars

----------------------------------------------------------------------------
(* One run whose continuation raises an exception when it is called *)

\* as Init, with a next that throws
InitThrowingNext ==
  /\ cfg \in Cfgs
  /\ opts \in Optss
  /\ type \in Containers
  /\ \E kind \in ClientValues(type) : \E desc \in ClientDescs(type, kind) :
       LET n == NewRequest(type, desc, kind)
       IN  /\ req = [r \in Reqs |-> IF r = "r1" THEN n.q ELSE IdleRequest]
           /\ heap = [r \in Reqs |-> IF r = "r1" THEN n.h ELSE <<>>]
           /\ call = [r \in Reqs |->
                        NotCalled(IF r = "r1" THEN Content(n.q.live, n.h) ELSE Undef)]
  /\ pc = [r \in Reqs |-> IF r = "r1" THEN "ready" ELSE "idle"]
  /\ result = [r \in Reqs |-> Undef]
  /\ reason = [r \in Reqs |-> Undef]
  /\ res = [r \in Reqs |-> NewResponse]
  /\ log = [r \in Reqs |-> <<>>]
  /\ nextThrows = [r \in Reqs |-> r = "r1"]
  /\ run = [r \in Reqs |-> IF r = "r1" THEN 1 ELSE 0]
  /\ gen = [NotGenerated(MockSchema) EXCEPT !.outcome = Middleware(type)]
  /\ fmt = NotFormatted(<<>>, <<>>, Undef)

\* the chain ends with the exception: no later validator is entered
NextThrowingNext ==
  \E r \in Reqs :
    \/ ValidateReturns(r)
    \/ ValidateThrows(r)
    \/ ValidatePending(r)
    \/ PromiseResolves(r)
    \/ PromiseRejects(r)
    \/ Then(r)
    \/ Catch(r)

SpecThrowingNext == InitThrowingNext /\ [][NextThrowingNext]_vars

----------------------------------------------------------------------------
(* One run under the scheduling of the event loop *)

\* one middleware call and the promise jobs it leaves behind
NextLive ==
  \E r \in Reqs :
    \/ ValidateReturns(r)
    \/ ValidateThrows(r)
    \/ ValidatePending(r)
    \/ PromiseResolves(r)
    \/ PromiseRejects(r)
    \/ Then(r)
    \/ Catch(r)

\* a middleware that was called runs its validate call; a pending promise of
\* the schema is settled at some time; the event loop runs every promise job
\* that is queued (.then on a fulfilled, .catch on a rejected promise)
Fairness ==
  \A r \in Reqs :
    /\ WF_vars(ValidateReturns(r) \/ ValidateThrows(r) \/ ValidatePending(r))
    /\ WF_vars(PromiseResolves(r) \/ PromiseRejects(r))
    /\ WF_vars(Then(r))
    /\ WF_vars(Catch(r))

SpecLive == Init /\ [][NextLive]_vars /\ Fairness

----------------------------------------------------------------------------
(* Generation: validator[type](schema) for any value a caller may pass *)

\* no request has reached a middleware
NoRequests ==
  /\ pc = [r \in Reqs |-> "idle"]
  /\ req = [r \in Reqs |-> IdleRequest]
  /\ heap = [r \in Reqs |-> <<>>]
  /\ result = [r \in Reqs |-> Undef]
  /\ reason = [r \in Reqs |-> Undef]
  /\ res = [r \in Reqs |-> NewResponse]
  /\ log = [r \in Reqs |-> <<>>]
  /\ call = [r \in Reqs |-> NotCalled(Undef)]
  /\ nextThrows = [r \in Reqs |-> FALSE]
  /\ run = [r \in Reqs |-> 0]

InitSchema ==
  /\ cfg = NoConfig
  /\ opts = NoConfig
  /\ type \in Generators
  /\ gen \in {NotGenerated(s) : s \in Candidates}
  /\ fmt = NotFormatted(<<>>, <<>>, Undef)
  /\ NoRequests

\* isStandardSchema(schema) called on its own
IsStandardSchemaCall ==
  /\ gen.isSchema = Undef
  /\ gen' = [gen EXCEPT !.isSchema = JSBool(isStandardSchema(gen.schema))]
  /\ UNCHANGED <<cfg, opts, type, pc, req, heap, result, reason, res, log, call,
                 nextThrows, run, fmt>>

\* a generator that returns its middleware whatever it is given
GenerateUnchecked ==
  /\ gen.outcome = Undef
  /\ gen' = [gen EXCEPT !.outcome = Middleware(type)]
  /\ UNCHANGED <<cfg, opts, type, pc, req, heap, result, reason, res, log, call,
                 nextThrows, run, fmt>>

\* if (!isStandardSchema(schema)) throw new Error(...); return (req, res, next) => ...
Generate ==
  /\ gen.outcome = Undef
  /\ gen' = [gen EXCEPT !.outcome = IF ~isStandardSchema(gen.schema)
                                     THEN InvalidSchema
                                     ELSE Middleware(type)]
  /\ UNCHANGED <<cfg, opts, type, pc, req, heap, result, reason, res, log, call,
                 nextThrows, run, fmt>>

NextSchema == IsStandardSchemaCall \/ Generate

SpecSchema == InitSchema /\ [][NextSchema]_vars

----------------------------------------------------------------------------
(* buildErrorString applied to any issues list, label and prefix override *)

\* path?: ReadonlyArray<PropertyKey | PathSegment>
Paths == {Undef, JSArr(<<"user", "email">>)}
PathIssue(m, p) == [message |-> m, path |-> p]
PathIssueLists == SeqsUpTo({PathIssue(m, p) : m \in Messages, p \in Paths}, MaxIssues)

\* `${type} json`
ResponseLabel == <<"response", " json">>

\* the labels the middlewares and the tests pass
Labels == {RequestLabel(c) : c \in Containers} \cup {ResponseLabel, <<"query">>}

\* errorStringTemplate?: string
Templates == {Undef, JSStr(<<>>), JSStr(<<"Custom error message:">>)}

InitFormat ==
  /\ cfg = NoConfig
  /\ opts = NoConfig
  /\ type = "query"
  /\ gen = NotGenerated(MockSchema)
  /\ fmt \in {NotFormatted(l, c, t) : l \in PathIssueLists, c \in Labels, t \in Templates}
  /\ NoRequests

Format ==
  /\ fmt.out = Undef
  /\ fmt' = [fmt EXCEPT !.out = JSStr(buildErrorString(fmt.issues, fmt.container,
                                                       fmt.template))]
  /\ UNCHANGED <<cfg, opts, type, pc, req, heap, result, reason, res, log, call,
                 nextThrows, run, gen>>

NextFormat == Format

SpecFormat == InitFormat /\ [][NextFormat]_vars

----------------------------------------------------------------------------
(* createValidator: the response middleware and the res.json it installs *)

\* res.json is the framework's own function, or the wrapper validateJson
WithJson(rs, f) ==
  [k \in DOMAIN rs \cup {"json"} |-> IF k = "json" THEN f ELSE rs[k]]

\* what a handler passes to res.json
Payload == Obj([k \in {"message"} |-> "success"])

\* the issues lists a response schema reports: one of each length
JsonIssueLists ==
  {l \in IssueLists : \A i \in DOMAIN l : l[i].message = (IF i % 2 = 1 THEN "m1" ELSE "m2")}

\* { value } or { issues } for a payload; the wrapper never reads the payload
\* again, so a change validate makes to it in place is not followed
JsonOutcomes(v, h) ==
       {[r |-> Outcome(Undef, v), h |-> h]}
  \cup {[r |-> Outcome(Undef, Null), h |-> h]}
  \cup {[r |-> Outcome(Undef, Ref(Len(h) + 1)), h |-> Append(h, OutObj)]}
  \cup {[r |-> Outcome(JSArr(l), Undef), h |-> h] : l \in JsonIssueLists}

\* a wrapper that reads the validator-level status code only
ResponseStatusCodeCfgOnly(o, c) == Or(c.statusCode, JSNum(500))

\* opts.statusCode || cfg.statusCode || 500
ResponseStatusCode(o, c) == Or(Or(o.statusCode, c.statusCode), JSNum(500))

\* an err object tagged with the label of the response body
ResponseErrorJsonType(issues) == [t |-> "object", type |-> "response json", issues |-> issues]

\* an err object that also carries the status code
ResponseErrorWithStatus(issues) ==
  [t |-> "object", type |-> "response", issues |-> issues, statusCode |-> JSNum(500)]

\* the err object of the wrapper's passError branch
ResponseError(issues) == [t |-> "object", type |-> "response", issues |-> issues]

\* validator.response(schema, opts) is on the route; the handler behind it
\* sends its payloads with res.json
InitResponse ==
  /\ cfg \in Cfgs
  /\ opts \in Optss
  /\ type = "response"
  /\ pc = [r \in Reqs |-> IF r = "r1" THEN "ready" ELSE "idle"]
  /\ req = [r \in Reqs |-> IdleRequest]
  /\ heap = [r \in Reqs |-> <<>>]
  /\ result = [r \in Reqs |-> Undef]
  /\ reason = [r \in Reqs |-> Undef]
  /\ res = [r \in Reqs |-> WithJson(NewResponse, "json")]
  /\ log = [r \in Reqs |-> <<>>]
  /\ call = [r \in Reqs |-> NotCalled(Undef)]
  /\ nextThrows = [r \in Reqs |-> FALSE]
  /\ run = [r \in Reqs |-> 0]
  /\ gen = [NotGenerated(MockSchema) EXCEPT !.outcome = Middleware("response")]
  /\ fmt = NotFormatted(<<>>, <<>>, Undef)

\* a response middleware that installs the wrapper and does not go on
ResponseMiddlewareHolds(r) ==
  /\ pc[r] = "ready"
  /\ res' = [res EXCEPT ![r].json = "validateJson"]
  /\ log' = [log EXCEPT ![r] = <<Event("setJson", JSStr(<<"validateJson">>))>>]
  /\ pc' = [pc EXCEPT ![r] = "done"]
  /\ UNCHANGED <<cfg, opts, type, req, heap, result, reason, call, nextThrows, run, gen, fmt>>

\* a response middleware that calls the continuation a second time
ResponseMiddlewareContinuesTwice(r) ==
  /\ pc[r] = "ready"
  /\ res' = [res EXCEPT ![r].json = "validateJson"]
  /\ log' = [log EXCEPT ![r] = <<Event("setJson", JSStr(<<"validateJson">>)),
                                 Event("next", NoArg), Event("next", NoArg)>>]
  /\ pc' = [pc EXCEPT ![r] = "done"]
  /\ UNCHANGED <<cfg, opts, type, req, heap, result, reason, call, nextThrows, run, gen, fmt>>

\* res.json = validateJson; next()
ResponseMiddleware(r) ==
  /\ pc[r] = "ready"
  /\ res' = [res EXCEPT ![r].json = "validateJson"]
  /\ log' = [log EXCEPT ![r] = <<Event("setJson", JSStr(<<"validateJson">>)),
                                 Event("next", NoArg)>>]
  /\ pc' = [pc EXCEPT ![r] = "done"]
  /\ UNCHANGED <<cfg, opts, type, req, heap, result, reason, call, nextThrows, run, gen, fmt>>

\* the handler may call res.json(payload): the wrapper is installed and no
\* earlier call of it is still under way
CanEmit(r) ==
  /\ pc[r] = "done"
  /\ res[r].json = "validateJson"
  /\ run[r] < MaxEmits

\* res.json(json) entered with a new payload object
Emit(r, mode) ==
  /\ heap' = [heap EXCEPT ![r] = Append(@, Payload)]
  /\ call' = [call EXCEPT ![r] = [pre |-> [t |-> "object", o |-> Payload],
                                   mode |-> mode, mutated |-> FALSE]]
  /\ run' = [run EXCEPT ![r] = @ + 1]

\* await schema['~standard'].validate(json) where validate returns an outcome
JsonReturns(r) ==
  /\ CanEmit(r)
  /\ LET v == Ref(Len(heap[r]) + 1)
     IN  /\ \E o \in JsonOutcomes(v, Append(heap[r], Payload)) :
               /\ heap' = [heap EXCEPT ![r] = o.h]
               /\ result' = [result EXCEPT ![r] = o.r]
         /\ call' = [call EXCEPT ![r] = [pre |-> [t |-> "object", o |-> Payload],
                                          mode |-> "sync", mutated |-> FALSE]]
         /\ log' = [log EXCEPT ![r] = Append(@, Event("json", v))]
  /\ run' = [run EXCEPT ![r] = @ + 1]
  /\ pc' = [pc EXCEPT ![r] = "fulfilled"]
  /\ UNCHANGED <<cfg, opts, type, req, reason, res, nextThrows, gen, fmt>>

\* a wrapper without the try block: the exception leaves the res.json call
JsonThrowsUncaught(r) ==
  /\ CanEmit(r)
  /\ Emit(r, "sync")
  /\ \E e \in Errors : result' = [result EXCEPT ![r] = JSError(e)]
  /\ log' = [log EXCEPT ![r] = Append(@, Event("json", Ref(Len(heap[r]) + 1)))]
  /\ UNCHANGED <<cfg, opts, type, pc, req, reason, res, nextThrows, gen, fmt>>

\* validate throws inside the try block: catch (err) { next(err) } runs in the
\* same call
JsonThrows(r) ==
  /\ CanEmit(r)
  /\ Emit(r, "sync")
  /\ \E e \in Errors :
       /\ result' = [result EXCEPT ![r] = JSError(e)]
       /\ log' = [log EXCEPT ![r] = @ \o <<Event("json", Ref(Len(heap[r]) + 1)),
                                           Event("next", JSError(e))>>]
  /\ UNCHANGED <<cfg, opts, type, pc, req, reason, res, nextThrows, gen, fmt>>

\* validate returns a promise that is still pending
JsonPending(r) ==
  /\ CanEmit(r)
  /\ Emit(r, "async")
  /\ result' = [result EXCEPT ![r] = [t |-> "pending", input |-> Ref(Len(heap[r]) + 1)]]
  /\ log' = [log EXCEPT ![r] = Append(@, Event("json", Ref(Len(heap[r]) + 1)))]
  /\ pc' = [pc EXCEPT ![r] = "pending"]
  /\ UNCHANGED <<cfg, opts, type, req, reason, res, nextThrows, gen, fmt>>

\* the response schema's promise is fulfilled with an outcome
JsonPromiseResolves(r) ==
  /\ pc[r] = "pending"
  /\ \E o \in JsonOutcomes(result[r].input, heap[r]) :
       /\ heap' = [heap EXCEPT ![r] = o.h]
       /\ result' = [result EXCEPT ![r] = o.r]
  /\ pc' = [pc EXCEPT ![r] = "fulfilled"]
  /\ UNCHANGED <<cfg, opts, type, req, reason, res, log, call, nextThrows, run, gen, fmt>>

\* the json the wrapper call under way was entered with
JsonArgument(l) ==
  l[CHOOSE i \in DOMAIN l : l[i].op = "json" /\ \A j \in DOMAIN l : j > i => l[j].op # "json"].arg

\* a wrapper that hands the payload it was given to the original res.json
EmittedRaw(out, json) == json

\* a wrapper that falls back to the payload when the output is null
EmittedOrPayload(out, json) == IF out.value = Null THEN json ELSE out.value

\* what the wrapper hands to the original res.json: result.value
Emitted(out, json) == out.value

\* validateJson after the await
JsonResume(r) ==
  /\ pc[r] = "fulfilled"
  /\ LET out == result[r]
     IN  IF ~Truthy(out.issues)
         THEN \* return resJson(result.value)
           LET sent == Emitted(out, JsonArgument(log[r]))
           IN  /\ log' = [log EXCEPT ![r] = Append(@, Event("resJson", sent))]
               /\ res' = [res EXCEPT ![r].ended = TRUE, ![r].body = sent]
         ELSE IF PassError(opts, cfg)
         THEN \* next(err)
           /\ log' = [log EXCEPT ![r] = Append(@, Event("next", ResponseError(out.issues)))]
           /\ res' = res
         ELSE \* res.status(...).end(buildErrorString(result.issues, `${type} json`))
           LET code == ResponseStatusCode(opts, cfg)
               body == JSStr(buildErrorString(out.issues.items, ResponseLabel, Undef))
           IN  /\ log' = [log EXCEPT ![r] = @ \o <<Event("status", code), Event("end", body)>>]
               /\ res' = [res EXCEPT ![r].statusCode = code, ![r].ended = TRUE,
                                     ![r].body = body]
  /\ pc' = [pc EXCEPT ![r] = "done"]
  /\ UNCHANGED <<cfg, opts, type, req, heap, result, reason, call, nextThrows, run, gen, fmt>>

NextResponse ==
  \E r \in Reqs :
    \/ ResponseMiddleware(r)
    \/ JsonReturns(r)
    \/ JsonThrows(r)
    \/ JsonPending(r)
    \/ JsonPromiseResolves(r)
    \/ PromiseRejects(r)
    \/ JsonResume(r)
    \/ Catch(r)

SpecResponse == InitResponse /\ [][NextResponse]_vars

----------------------------------------------------------------------------
(* What the claims speak of *)

\* a terminal action of a middleware run: the continuation called, or the
\* response ended
Terminal(e) == e.op \in {"next", "end"}
TerminalCount(l) == Cardinality({i \in 1..Len(l) : Terminal(l[i])})
Ops(l) == [i \in 1..Len(l) |-> l[i].op]

\* the .then callback has run on an outcome of validate
Handled(r) == pc[r] \in {"done", "rejected"} /\ result[r].t = "outcome"
Failed(r) == Handled(r) /\ result[r].issues # Undef
Succeeded(r) == Handled(r) /\ result[r].issues = Undef
\* the run ended with next(): the validation went through
Passed(r) ==
  Succeeded(r) /\ pc[r] = "done" /\ log[r][Len(log[r])] = Event("next", NoArg)

\* per-call value when one is given, else validator-level value, else the fallback
Given(v) == v # Undef
EffectivePropagation(o, c) ==
  IF Given(o.passError) THEN o.passError.b
  ELSE IF Given(c.passError) THEN c.passError.b
  ELSE FALSE
EffectiveStatus(o, c) ==
  IF Given(o.statusCode) THEN o.statusCode
  ELSE IF Given(c.statusCode) THEN c.statusCode
  ELSE JSNum(400)

FormattedIssues(r) ==
  JSStr(buildErrorString(result[r].issues.items, RequestLabel(type), Undef))

----------------------------------------------------------------------------
(* Claims *)

\* C1: every run of an inbound middleware, whatever validate did (returned a
\* success, returned a failure, raised), performs exactly one terminal action:
\* never two, and one once the run is over.
C1_ExactlyOneTerminalAction ==
  \A r \in Reqs :
    /\ TerminalCount(log[r]) <= 1
    /\ pc[r] \in {"done", "escaped"} => TerminalCount(log[r]) = 1

\* C2: on an outcome without issues the middleware stores a copy of the raw
\* value in the original-value slot, makes req[type] read as the output value,
\* then calls next() with no argument, in that order, and leaves the response
\* alone.
C2_SuccessSnapshotReplaceContinue ==
  \A r \in Reqs :
    (Succeeded(r) /\ pc[r] = "done") =>
      /\ Ops(log[r]) \in {<<"setOriginal", "assign", "next">>,
                          <<"setOriginal", "defineProperty", "next">>}
      /\ log[r][1].arg = req[r].orig
      /\ req[r].orig.t = "ref"
      /\ log[r][2].arg = result[r].value
      /\ req[r].desc # "inherited" /\ req[r].live = result[r].value
      /\ log[r][3].arg = NoArg
      /\ res[r] = NewResponse

\* C3: after a validation that went through, the original-value slot is
\* structurally equal to what the container held before validation and is
\* another reference than the live container.
C3_SnapshotEqualsPreValidation ==
  \A r \in Reqs :
    Passed(r) =>
      /\ Content(req[r].orig, heap[r]) = call[r].pre
      /\ req[r].orig # req[r].live

\* C4: when validate changed its input in place and then reported success, the
\* original-value slot still equals the value the container held before
\* validate ran.
C4_SnapshotTakenBeforeValidate ==
  \A r \in Reqs :
    (Passed(r) /\ call[r].mutated /\ call[r].pre.t = "object"
       /\ call[r].pre.o.kind = "object") =>
      Content(req[r].orig, heap[r]) = call[r].pre

\* C5: a failed validation with propagation off sets the response status to
\* the effective status code, ends the response with the formatted issues for
\* "request <container>", and does not call the continuation.
C5_FailureWithoutPropagationEndsResponse ==
  \A r \in Reqs :
    (Failed(r) /\ ~EffectivePropagation(opts, cfg)) =>
      /\ log[r] = <<Event("status", EffectiveStatus(opts, cfg)),
                    Event("end", FormattedIssues(r))>>
      /\ res[r] = [statusCode |-> EffectiveStatus(opts, cfg), ended |-> TRUE,
                   body |-> FormattedIssues(r)]

\* C6: a failed validation with propagation on calls the continuation exactly
\* once, with an error whose type is the container name and whose issues is
\* the list the schema reported, and neither sets a status on the response
\* nor ends it.
C6_FailureWithPropagationCallsNextOnce ==
  \A r \in Reqs :
    (Failed(r) /\ EffectivePropagation(opts, cfg)) =>
      /\ pc[r] = "done"
      /\ Ops(log[r]) = <<"next">>
      /\ log[r][1].arg.t = "object"
      /\ log[r][1].arg.type = type
      /\ log[r][1].arg.issues = result[r].issues
      /\ res[r] = NewResponse

C6_Witness ==
  \E r \in Reqs :
    /\ Failed(r) /\ EffectivePropagation(opts, cfg)
    /\ Len(result[r].issues.items) = MaxIssues
    /\ Ops(log[r]) = <<"next">>
    /\ log[r][1].arg.issues.items = result[r].issues.items

\* C7: a failure is propagated exactly when the effective propagation mode is
\* on, the per-call passError (true or false) taking precedence over the
\* validator-level one; otherwise the response is written directly.
C7_PerCallPassErrorOverrides ==
  \A r \in Reqs :
    Failed(r) =>
      IF EffectivePropagation(opts, cfg)
      THEN Ops(log[r]) = <<"next">> /\ ~res[r].ended
      ELSE Ops(log[r]) = <<"status", "end">> /\ res[r].ended

\* C8: the status code of a failure is the per-call statusCode when given, else
\* the validator-level one, else 400, both as the status of a direct response
\* and as the statusCode of a propagated error.
C8_EffectiveStatusCode ==
  \A r \in Reqs :
    Failed(r) =>
      IF res[r].ended
      THEN /\ res[r].statusCode = EffectiveStatus(opts, cfg)
           /\ log[r][1] = Event("status", EffectiveStatus(opts, cfg))
      ELSE /\ Ops(log[r]) = <<"next">>
           /\ log[r][1].arg.statusCode = EffectiveStatus(opts, cfg)

C8_Witness ==
  \E r \in Reqs :
    /\ Failed(r) /\ res[r].ended
    /\ Given(opts.statusCode) /\ Given(cfg.statusCode)
    /\ res[r].statusCode = opts.statusCode

\* C9: when the promise validate returned is rejected, the continuation is
\* called with that very rejection value, in either propagation mode; the
\* response is not written and no issues are formatted.
C9_RejectionReachesContinuation ==
  \A r \in Reqs :
    (pc[r] = "done" /\ call[r].mode = "async" /\ result[r].t = "error") =>
      /\ log[r] = <<Event("next", result[r])>>
      /\ res[r] = NewResponse

C9_Witness ==
  \E r \in Reqs :
    /\ pc[r] = "done" /\ call[r].mode = "async" /\ result[r].t = "error"
    /\ ~PassError(opts, cfg)
    /\ log[r] = <<Event("next", result[r])>>

\* C10: when validate throws synchronously, the continuation is called with
\* that very exception, and the exception does not leave the middleware call.
C10_SyncThrowReachesContinuation ==
  \A r \in Reqs :
    (call[r].mode = "sync" /\ result[r].t = "error") =>
      /\ pc[r] # "escaped"
      /\ log[r] = <<Event("next", result[r])>>

\* C11: a generator called with a schema that fails the capability check
\* throws at generation time and returns no middleware, for each of the six
\* generators; called with a conforming schema it does not throw and returns
\* the middleware of its container.
C11_GeneratorRejectsNonConformingSchema ==
  gen.outcome # Undef =>
    /\ type \in Generators
    /\ ~isStandardSchema(gen.schema) =>
         (gen.outcome = InvalidSchema /\ gen.outcome.t # "middleware")
    /\ isStandardSchema(gen.schema) => gen.outcome = Middleware(type)

\* validator.response({ '~standard': { version: 1, vendor: 'test' } }) has thrown
C11_Witness ==
  /\ type = "response"
  /\ gen.schema = Schema("object", Bundle("object", JSNum(1), JSStr(<<"test">>), Undef, Undef))
  /\ gen.outcome = InvalidSchema

\* the capability check as the specification words it
Conforming(c) ==
  /\ c.t \in {"object", "function"}
  /\ c.std.t = "object"
  /\ c.std.version.t = "number" /\ c.std.version.n = 1
  /\ c.std.vendor.t = "string"
  /\ c.std.validate.t = "function"

\* C12: isStandardSchema(candidate) is true exactly when the candidate is a
\* non-null object or a function whose '~standard' member is an object with
\* version identically 1, a string vendor and a callable validate; any other
\* candidate gives false, and an extra member of the bundle changes nothing.
C12_IsStandardSchemaIffConforming ==
  gen.isSchema # Undef =>
    /\ gen.isSchema = JSBool(Conforming(gen.schema))
    /\ (gen.schema.t \in {"object", "function"} /\ gen.schema.std.t \in {"object", "function"}) =>
         gen.isSchema =
           JSBool(isStandardSchema([gen.schema EXCEPT !.std.types = PlainObject]))

\* a function with an empty vendor string and a types member is accepted
C12_Witness ==
  /\ gen.isSchema = JSBool(TRUE)
  /\ gen.schema.t = "function"
  /\ gen.schema.std.vendor = JSStr(<<>>)
  /\ gen.schema.std.types = PlainObject

\* the failure of this run was handed to the continuation as an err object
Propagated(r) ==
  /\ Failed(r)
  /\ log[r] # <<>>
  /\ log[r][1].op = "next"
  /\ log[r][1].arg.t = "object"

\* C13 as stated: the err object of a propagated inbound failure has the
\* top-level fields type (container name), issues (the reported list), message
\* (the formatted string), value (the container value) and statusCode (the
\* effective status code).
C13_ErrorHasTopLevelMessage ==
  \A r \in Reqs :
    Propagated(r) =>
      LET err == log[r][1].arg
      IN  /\ {"type", "issues", "message", "value", "statusCode"} \subseteq DOMAIN err
          /\ err.type = type
          /\ err.issues = result[r].issues
          /\ err.message = FormattedIssues(r).s
          /\ err.value = req[r].live
          /\ err.statusCode = EffectiveStatus(opts, cfg)

\* C13 amended: the err object has the top-level fields type, issues, value,
\* statusCode and error, and no top-level message; the formatted string is
\* error.message and error.details is the reported issues list; value is what
\* req[type] reads at that moment and statusCode the effective status code.
C13_ErrorCarriesMessageUnderError ==
  \A r \in Reqs :
    Propagated(r) =>
      LET err == log[r][1].arg
      IN  /\ DOMAIN err = {"t", "type", "error", "value", "issues", "statusCode"}
          /\ DOMAIN err.error = {"message", "details"}
          /\ err.type = type
          /\ err.issues = result[r].issues
          /\ err.error.message = FormattedIssues(r).s
          /\ err.error.details = result[r].issues
          /\ Content(err.value, heap[r]) = Content(req[r].live, heap[r])
          /\ err.statusCode = EffectiveStatus(opts, cfg)

C13_Witness ==
  \E r \in Reqs :
    /\ Propagated(r)
    /\ Len(result[r].issues.items) = 2
    /\ Given(opts.statusCode)
    /\ log[r][1].arg.value.t = "ref"
    /\ log[r][1].arg.error.message =
         <<"Error validating ", "request ", type, ":", " ", result[r].issues.items[1].message,
           ". ", result[r].issues.items[2].message>>

\* the formatter has returned
Formatted == fmt.out # Undef

\* "Error validating <containerName>:"
DefaultPrefix == <<"Error validating ">> \o fmt.container \o <<":">>

\* a period, with or without the space that separates it from what follows
Periods == {".", ". "}

\* C14 as stated: without an override the formatter returns the default prefix
\* followed by every issue's message in the reported order, each message
\* followed by a period.
C14_EachMessageFollowedByPeriod ==
  (Formatted /\ fmt.template = Undef) =>
    LET out  == fmt.out.s
        n    == Len(fmt.issues)
        p    == DefaultPrefix
        rest == SubSeq(out, Len(p) + 1, Len(out))
    IN  /\ Len(out) >= Len(p)
        /\ SubSeq(out, 1, Len(p)) = p
        /\ \E at \in [1..n -> 1..Len(rest)] :
             /\ \A i \in 1..n : rest[at[i]] = fmt.issues[i].message
             /\ \A i, j \in 1..n : i < j => at[i] < at[j]
             /\ \A i \in 1..n : at[i] < Len(rest) /\ rest[at[i] + 1] \in Periods

\* the prefix the formatter is asked to use, where the override is not the
\* empty string
AskedPrefix == IF fmt.template = Undef THEN DefaultPrefix ELSE fmt.template.s

C16_EmptyListGivesPrefixOnly ==
  (Formatted /\ fmt.issues = <<>> /\ fmt.template # JSStr(<<>>)) =>
    /\ fmt.out.t = "string"
    /\ fmt.out.s = AskedPrefix
    /\ fmt.out.s[Len(fmt.out.s)] \notin {" ", ". "}

C16_Witness ==
  /\ Formatted
  /\ fmt.issues = <<>>
  /\ fmt.container = ResponseLabel
  /\ fmt.template = Undef
  /\ fmt.out = JSStr(<<"Error validating ", "response", " json", ":">>)

\* C17 as stated: whenever an override string is passed, the empty string
\* included, the result is that override in place of the default prefix,
\* followed by what follows the prefix.
C17_OverrideReplacesPrefixVerbatim ==
  (Formatted /\ fmt.template # Undef) =>
    LET out == fmt.out.s
        n   == Len(fmt.issues)
        p   == fmt.template.s
    IN  /\ Len(out) = Len(p) + 2 * n
        /\ SubSeq(out, 1, Len(p)) = p
        /\ \A i \in 1..n : out[Len(p) + 2 * i] = fmt.issues[i].message

\* the calls made since the wrapper was last entered
LastEmission(l) ==
  LET i == CHOOSE i \in DOMAIN l :
             l[i].op = "json" /\ \A j \in DOMAIN l : j > i => l[j].op # "json"
  IN  SubSeq(l, i + 1, Len(l))

\* a call of the wrapper has run to its end on an outcome of the schema
EmissionSettled(r) == pc[r] = "done" /\ run[r] > 0 /\ result[r].t = "outcome"

EffectiveResponseStatus(o, c) ==
  IF Given(o.statusCode) THEN o.statusCode
  ELSE IF Given(c.statusCode) THEN c.statusCode
  ELSE JSNum(500)

\* C18: the response middleware replaces res.json by the validating wrapper
\* and then calls the continuation with no argument, at once: before any
\* payload has been handed to the wrapper or validated.
C18_ResponseMiddlewareWrapsThenContinues ==
  \A r \in Reqs :
    pc[r] \notin {"idle", "ready"} =>
      /\ res[r].json = "validateJson"
      /\ Len(log[r]) >= 2
      /\ log[r][1].op = "setJson"
      /\ log[r][2] = Event("next", NoArg)
      /\ (run[r] = 0 => (Len(log[r]) = 2 /\ result[r] = Undef /\ ~res[r].ended))

C18_Witness ==
  \E r \in Reqs :
    /\ pc[r] = "done"
    /\ run[r] = 0
    /\ res[r].json = "validateJson"
    /\ Ops(log[r]) = <<"setJson", "next">>

\* C19: when the wrapped res.json is called and the validation succeeds, the
\* original res.json is called exactly once, with the value the schema
\* returned and not with the payload, and the continuation is not called.
C19_SuccessEmitsValidatedValueOnce ==
  \A r \in Reqs :
    (EmissionSettled(r) /\ result[r].issues = Undef) =>
      /\ LastEmission(log[r]) = <<Event("resJson", result[r].value)>>
      /\ res[r].ended
      /\ res[r].body = result[r].value

C19_Witness ==
  \E r \in Reqs :
    /\ EmissionSettled(r) /\ result[r].issues = Undef
    /\ call[r].mode = "async"
    /\ result[r].value.t = "ref"
    /\ result[r].value # JsonArgument(log[r])
    /\ Content(result[r].value, heap[r]) # call[r].pre
    /\ log[r][Len(log[r])] = Event("resJson", result[r].value)

\* C20 as stated: when response validation fails with propagation off, the
\* response is ended with the per-call status code, else the validator-level
\* one, else 500, the body is the formatted issues string for the response,
\* and the original res.json is not called.
C20_ResponseFailureEndsResponse ==
  \A r \in Reqs :
    (EmissionSettled(r) /\ result[r].issues # Undef /\ ~EffectivePropagation(opts, cfg)) =>
      LET code == EffectiveResponseStatus(opts, cfg)
          body == JSStr(buildErrorString(result[r].issues.items, ResponseLabel, Undef))
      IN  /\ LastEmission(log[r]) = <<Event("status", code), Event("end", body)>>
          /\ res[r].statusCode = code
          /\ res[r].ended
          /\ res[r].body = body

\* C21: when response validation fails with propagation on, at either level,
\* the continuation is called with an error whose type is "response" and
\* whose issues is the reported list; the wrapper neither sets a status nor
\* ends the response, and the original res.json is not called.
C21_ResponseFailurePropagates ==
  \A r \in Reqs :
    (EmissionSettled(r) /\ result[r].issues # Undef /\ EffectivePropagation(opts, cfg)) =>
      LET made == LastEmission(log[r])
      IN  /\ Ops(made) = <<"next">>
          /\ made[1].arg.t = "object"
          /\ made[1].arg.type = "response"
          /\ made[1].arg.type \notin Containers
          /\ made[1].arg.issues = result[r].issues
          /\ (run[r] = 1 => res[r] = WithJson(NewResponse, "validateJson"))

C21_Witness ==
  \E r \in Reqs :
    /\ EmissionSettled(r) /\ result[r].issues # Undef
    /\ opts.passError = Undef /\ cfg.passError = JSBool(TRUE)
    /\ run[r] = 1
    /\ Len(result[r].issues.items) = 2
    /\ ~res[r].ended
    /\ log[r][Len(log[r])] = Event("next", [t |-> "object", type |-> "response",
                                             issues |-> result[r].issues])

\* the failure of the last res.json call was handed to the continuation
ResponsePropagated(r) ==
  /\ EmissionSettled(r)
  /\ result[r].issues # Undef
  /\ Ops(LastEmission(log[r])) = <<"next">>

C23_ResponseFaultReachesContinuation ==
  \A r \in Reqs :
    (pc[r] = "done" /\ run[r] > 0 /\ result[r].t = "error") =>
      /\ LastEmission(log[r]) = <<Event("next", result[r])>>
      /\ (run[r] = 1 => res[r] = WithJson(NewResponse, "validateJson"))

C23_Witness ==
  \E r \in Reqs :
    /\ pc[r] = "done" /\ run[r] = 1 /\ result[r].t = "error"
    /\ call[r].mode = "sync"
    /\ ~PassError(opts, cfg)
    /\ Ops(log[r]) = <<"setJson", "next", "json", "next">>

\* C24: on a route of inbound validators followed by a handler the validators
\* are entered one after the other in the order they were attached, the next
\* one only after the one before it succeeded, and once a validation has
\* failed, in either propagation mode, no later validator and not the handler
\* runs.
C24_ValidatorsRunInOrder ==
  [][\A r \in Reqs :
       /\ run'[r] \in {run[r], run[r] + 1}
       /\ (run'[r] = run[r] + 1) => (Passed(r) /\ pc'[r] = "ready")
       /\ (pc'[r] = "handler" /\ pc[r] # "handler") => Passed(r)
       /\ Failed(r) => (run'[r] = run[r] /\ pc'[r] \notin {"ready", "handler"})]_vars

\* the handler is reached after two validators
C24_Witness ==
  \E r \in Reqs :
    /\ pc[r] = "handler"
    /\ run[r] = 2
    /\ result[r].t = "outcome" /\ result[r].issues = Undef

\* C25: while the promise validate returned is pending, the middleware has
\* made no call in this run (no snapshot, no replacement, no status or end,
\* no continuation) and the request and the response are as they were; calls
\* are made, and request and response changed, only by the callbacks that run
\* once the promise is settled.
C25_NothingHappensWhilePending ==
  [][\A r \in Reqs :
       /\ pc'[r] = "pending" =>
            (log'[r] = <<>> /\ req'[r] = req[r] /\ res'[r] = res[r])
       /\ (log'[r] # log[r] /\ log'[r] # <<>>) => pc[r] \in {"fulfilled", "rejected"}
       /\ (req'[r] # req[r] \/ res'[r] # res[r]) => pc[r] = "fulfilled"]_vars

\* the second validator of a route waits for its schema
C25_Witness ==
  \E r \in Reqs :
    /\ pc[r] = "pending"
    /\ run[r] = 2
    /\ req[r].desc = "ownGetter"
    /\ log[r] = <<>>
    /\ ~res[r].ended

\* what a request that handled an outcome must show, in terms of its own
\* container, outcome and response only
OwnOutcomeOnly(r) ==
  IF result[r].issues = Undef
  THEN /\ log[r][Len(log[r])] = Event("next", NoArg)
       /\ log[r][Len(log[r]) - 1].arg = result[r].value
       /\ req[r].live = result[r].value
       /\ req[r].orig.t = "ref"
       /\ req[r].orig.a \in DOMAIN heap[r]
       /\ log[r][1] = Event("setOriginal", req[r].orig)
       /\ (call[r].pre = Undef => heap[r][req[r].orig.a] = Obj(NoProps))
       /\ (call[r].pre # Undef /\ ~call[r].mutated) =>
            heap[r][req[r].orig.a].props = call[r].pre.o.props
       /\ res[r] = NewResponse
  ELSE IF EffectivePropagation(opts, cfg)
  THEN /\ Ops(log[r]) = <<"next">>
       /\ log[r][1].arg.issues = result[r].issues
       /\ log[r][1].arg.error.message = FormattedIssues(r).s
       /\ res[r] = NewResponse
       /\ req[r].orig = Undef
  ELSE /\ Ops(log[r]) = <<"status", "end">>
       /\ res[r].body = FormattedIssues(r)
       /\ log[r][2].arg = FormattedIssues(r)
       /\ req[r].orig = Undef

\* the part of the state that belongs to request r
Own(r) == <<pc[r], req[r], heap[r], result[r], reason[r], res[r], log[r], call[r], run[r]>>

\* C26: with two requests in flight through the same middleware and their
\* validations completing in any interleaving, each request ends with the
\* terminal action, live container and original-value slot given by its own
\* input and outcome, and no step of one request changes anything of the
\* other or of the shared configuration.
C26_RequestsDoNotInterfere ==
  /\ [](\A r \in Reqs : (pc[r] = "done" /\ result[r].t = "outcome") => OwnOutcomeOnly(r))
  /\ [][/\ \E r \in Reqs : \A x \in Reqs \ {r} : Own(x)' = Own(x)
        /\ cfg' = cfg /\ opts' = opts /\ type' = type]_vars

\* both validations were asynchronous; one request was answered with its
\* issues, the other went on with its value
C26_Witness ==
  /\ pc["r1"] = "done" /\ pc["r2"] = "done"
  /\ call["r1"].mode = "async" /\ call["r2"].mode = "async"
  /\ result["r1"].t = "outcome" /\ result["r1"].issues # Undef
  /\ result["r2"].t = "outcome" /\ result["r2"].issues = Undef
  /\ call["r1"].pre # call["r2"].pre
  /\ res["r1"].ended /\ ~res["r2"].ended
  /\ log["r2"][Len(log["r2"])] = Event("next", NoArg)

\* a value that is falsy, or an object without properties
FalsyOrEmpty(v, h) == ~Truthy(v) \/ (v.t = "ref" /\ h[v.a].props = NoProps)

\* C27 as stated: an outcome without an issues list whose value is falsy or
\* empty (null, 0, undefined, {}) is handled as a success: req[type] reads as
\* that value, the continuation is called with no argument and the response
\* is left alone; an outcome with an issues list never is.
C27_FalsyValueIsSuccess ==
  \A r \in Reqs :
    (pc[r] \in {"done", "rejected"} /\ result[r].t = "outcome") =>
      /\ (result[r].issues = Undef /\ FalsyOrEmpty(result[r].value, heap[r])) =>
           /\ pc[r] = "done"
           /\ log[r][Len(log[r])] = Event("next", NoArg)
           /\ req[r].live = result[r].value
           /\ res[r] = NewResponse
      /\ result[r].issues # Undef =>
           /\ log[r] # <<>>
           /\ log[r][Len(log[r])] # Event("next", NoArg)

\* C28 as stated: when req[type] is not a writable own data property (no own
\* property, or an accessor), a successful validation installs a getter, so
\* that req[type] reads as the validated value from then on, and the
\* continuation is called with no argument.
C28_GetterFallbackOnNonWritable ==
  \A r \in Reqs :
    (pc[r] \in {"done", "rejected"} /\ result[r].t = "outcome"
       /\ result[r].issues = Undef /\ req[r].desc # "data") =>
      /\ pc[r] = "done"
      /\ req[r].desc = "ownGetter"
      /\ req[r].live = result[r].value
      /\ Ops(log[r]) = <<"setOriginal", "defineProperty", "next">>
      /\ log[r][2].arg = result[r].value
      /\ log[r][3].arg = NoArg

\* the run of r has come to its end on an outcome of the schema
AtRest(r) == pc[r] \in {"done", "escaped"} /\ result[r].t = "outcome"

\* the own-property state of req[type] the run of r started from (one run)
InitialDesc(r) == IF req[r].desc = "ownGetter" THEN "inherited" ELSE req[r].desc

\* a got its outcome at once, b the same outcome for the same input through
\* a promise
SameOutcomeSyncAndAsync(a, b) ==
  /\ AtRest(a) /\ AtRest(b)
  /\ call[a].mode = "sync" /\ call[b].mode = "async"
  /\ call[a].pre = call[b].pre
  /\ call[a].mutated = call[b].mutated
  /\ InitialDesc(a) = InitialDesc(b)
  /\ req[a].reparse = req[b].reparse
  /\ result[a] = result[b]
  /\ Content(result[a].value, heap[a]) = Content(result[b].value, heap[b])

\* C29: a schema that returns its outcome at once and a schema that returns
\* the same outcome through a promise lead to the same calls with the same
\* arguments (continuation or response) and to the same final request and
\* response.
C29_SyncAndAsyncOutcomeAgree ==
  \A a, b \in Reqs :
    SameOutcomeSyncAndAsync(a, b) =>
      /\ pc[a] = "done" /\ pc[b] = "done"
      /\ log[a] = log[b]
      /\ req[a] = req[b]
      /\ heap[a] = heap[b]
      /\ res[a] = res[b]

\* the same issues, reported at once for one request and through a promise
\* for the other, are propagated alike
C29_Witness ==
  \E a, b \in Reqs :
    /\ SameOutcomeSyncAndAsync(a, b)
    /\ cfg.passError = JSBool(TRUE)
    /\ result[a].issues # Undef
    /\ Len(result[a].issues.items) = 1
    /\ log[a] = log[b]
    /\ Ops(log[b]) = <<"next">>
    /\ log[b][1].arg.issues = result[b].issues

\* the calls of the continuation a run has made
NextCalls(l) == {i \in 1..Len(l) : l[i].op = "next"}

\* C30 as stated: an inbound middleware calls its continuation at most once
\* per request on every path, also when the continuation call it makes on
\* success or on a propagated failure raises an exception.
C30_ContinuationCalledAtMostOnce ==
  \A r \in Reqs : Cardinality(NextCalls(log[r])) <= 1

\* the calls of res.json a request has seen, and what the i-th of them did
Emissions(l) == {i \in 1..Len(l) : l[i].op = "json"}
EmissionAt(l, i) ==
  LET later == {j \in Emissions(l) : j > i}
      stop == IF later = {} THEN Len(l)
              ELSE (CHOOSE j \in later : \A k \in later : j <= k) - 1
  IN  SubSeq(l, i + 1, stop)
\* the emissions that have run to their end
EmissionsOver(r) ==
  {i \in Emissions(log[r]) :
     pc[r] = "done" \/ \E j \in Emissions(log[r]) : j > i}

\* C31 as stated: a request that passes through a response middleware sees
\* the continuation called exactly once in total, however many times the
\* wrapped emission function is called afterwards and however each of its
\* validations ends.
C31_ResponseContinuationOnceInTotal ==
  \A r \in Reqs : pc[r] \notin {"idle", "ready"} =>
    Cardinality(NextCalls(log[r])) = 1

\* C31 amended: the middleware itself calls the continuation exactly once,
\* with no argument; every later call of the wrapped emission function adds
\* at most one call, always with an error (a propagated failure or a fault),
\* and an emission that called the continuation neither emitted nor ended.
C31_ResponseContinuationOncePlusOncePerFailedEmission ==
  \A r \in Reqs : pc[r] \notin {"idle", "ready"} =>
    LET l == log[r]
    IN  /\ {i \in NextCalls(l) : l[i].arg = NoArg} = {2}
        /\ \A i \in NextCalls(l) : i > 2 => \E j \in Emissions(l) : j < i
        /\ \A i \in Emissions(l) :
             /\ Cardinality(NextCalls(EmissionAt(l, i))) <= 1
             /\ NextCalls(EmissionAt(l, i)) # {} => Ops(EmissionAt(l, i)) = <<"next">>
        /\ \A i \in EmissionsOver(r) :
             Ops(EmissionAt(l, i)) \in {<<"next">>, <<"resJson">>, <<"status", "end">>}
        /\ Cardinality(NextCalls(l)) <= 1 + Cardinality(Emissions(l))

\* two emissions have each called the continuation with an error, after the
\* middleware's own call: three calls on one request
C31_Witness ==
  /\ pc["r1"] = "done"
  /\ Cardinality(Emissions(log["r1"])) = 2
  /\ Cardinality(NextCalls(log["r1"])) = 3
  /\ result["r1"].t = "outcome"
  /\ result["r1"].issues # Undef

\* C32 as stated: every request that reaches an inbound middleware comes to
\* a terminal action (a continuation call or a response end) at some time,
\* given that the validate call returns, throws, resolves or rejects.
C32_EveryRequestReachesTerminalAction ==
  \A r \in Reqs : (pc[r] = "ready") ~> (TerminalCount(log[r]) >= 1)

\* a step of a run that fails or faults: the .then callback on an outcome with
\* issues, a throw of validate, a rejection, a throw inside the .then
\* callback, the .catch callback
FailureStep(r) ==
  \/ pc[r] = "fulfilled" /\ result[r].issues # Undef
  \/ pc[r] = "rejected"
  \/ pc'[r] \in {"rejected", "escaped"}

\* the request holder's container property and original-value slot, with the
\* object the slot refers to
Holder(q, h) ==
  [live |-> q.live, desc |-> q.desc, orig |-> q.orig,
   snapshot |-> IF q.orig.t = "ref" THEN h[q.orig.a] ELSE Undef]

\* C33 as stated: on every failed inbound validation and on every unexpected
\* fault, in either propagation mode, the request's live container and its
\* original-value slot are left exactly as they were before the middleware
\* ran.
C33_FailureLeavesRequestUntouched ==
  [][\A r \in Reqs :
       FailureStep(r) => Holder(req[r], heap[r])' = Holder(req[r], heap[r])]_vars

\* the client sent a plain object for the container, and no validate call
\* has changed that object in place
ClientObjectAsSent(r) == Len(heap[r]) >= 1 /\ heap[r][1] = ObjA

\* C34 as stated: after any sequence of validations of the same container
\* that went through on one request, the original-value slot still equals
\* the value the client sent for the container, not the output of an earlier
\* validation.
C34_OriginalSlotKeepsClientValue ==
  \A r \in Reqs :
    (Passed(r) /\ ClientObjectAsSent(r)) =>
      Content(req[r].orig, heap[r]) = [t |-> "object", o |-> ObjA]

\* C35 as stated: when two inbound middlewares for the same container run one
\* after the other on one request and both schemas succeed, the second one,
\* like the first, ends by calling the continuation with no argument and
\* leaves req[type] reading as the second schema's output, whether the
\* property was writable or was shadowed by a getter in the first run.
C35_SecondValidatorOfContainerSucceeds ==
  \A r \in Reqs :
    (run[r] = 2 /\ Succeeded(r) /\ pc[r] = "done") =>
      /\ Ops(log[r]) \in {<<"setOriginal", "assign", "next">>,
                          <<"setOriginal", "defineProperty", "next">>}
      /\ log[r][Len(log[r])] = Event("next", NoArg)
      /\ req[r].live = result[r].value

\* the events a step adds to the log of r
Added(r) == {i \in 1..Len(log'[r]) : i > Len(log[r])}

\* C36: once the response middleware has run, the original res.json is only
\* called by the wrapper, after a validation whose outcome has no issues, and
\* with the value of that outcome; a payload whose validation reported issues
\* or raised is never handed to it.
C36_OnlyValidatedOutputIsEmitted ==
  [][\A r \in Reqs : \A i \in Added(r) :
       log'[r][i].op = "resJson" =>
         /\ res[r].json = "validateJson"
         /\ pc[r] = "fulfilled"
         /\ result[r].t = "outcome"
         /\ result[r].issues = Undef
         /\ log'[r][i].arg = result[r].value
         /\ Added(r) = {i}]_vars

\* after a first payload that failed validation and was not emitted, a second
\* payload has been validated and the schema's output, another value than the
\* payload, has been emitted
C36_Witness ==
  /\ pc["r1"] = "done"
  /\ Cardinality(Emissions(log["r1"])) = 2
  /\ \E i \in Emissions(log["r1"]) :
       /\ Ops(EmissionAt(log["r1"], i)) \in {<<"next">>, <<"status", "end">>}
       /\ \E j \in Emissions(log["r1"]) :
            /\ j > i
            /\ Ops(EmissionAt(log["r1"], j)) = <<"resJson">>
            /\ EmissionAt(log["r1"], j)[1].arg = result["r1"].value
            /\ EmissionAt(log["r1"], j)[1].arg # log["r1"][j].arg

\* "Error validating request <container>:" and nothing after it
BarePrefix(ty) == JSStr(<<"Error validating ">> \o RequestLabel(ty) \o <<":">>)

\* C37 as stated: an outcome whose issues list is empty is handled as a
\* failure, not as a success: req[type] and the original-value slot are not
\* assigned, and with propagation off the response gets the effective status
\* code and is ended with the bare prefix as its body.
C37_EmptyIssuesListIsFailure ==
  \A r \in Reqs :
    (Handled(r) /\ result[r].issues = JSArr(<<>>)) =>
      /\ \A i \in 1..Len(log[r]) :
           log[r][i].op \notin {"setOriginal", "assign", "defineProperty"}
      /\ log[r][Len(log[r])] # Event("next", NoArg)
      /\ ~EffectivePropagation(opts, cfg) =>
           /\ log[r] = <<Event("status", EffectiveStatus(opts, cfg)),
                         Event("end", BarePrefix(type))>>
           /\ res[r] = [statusCode |-> EffectiveStatus(opts, cfg), ended |-> TRUE,
                        body |-> BarePrefix(type)]

====
